---- MODULE Spec2Model ----
(***************************************************************************)
(* The response writer of http-over-netpoll (pkg/adaptor) and the part of  *)
(* Engine.handleRequest that drives it: one ResponseWriter from            *)
(* NewResponseWriter to Release, the handler calling WriteHeader, Write,   *)
(* ReadFrom, Flush, Hijack and Header().Set/Del in any order, and the      *)
(* write calls the writer issues on the connection's netpoll.Writer.       *)
(* Around it, Engine.ServeConn: the loop that parses one request after the *)
(* other from the connection's reader, runs handleRequest, drains the      *)
(* request body and decides whether to go on (ConnSpec).                   *)
(*                                                                         *)
(* Strings that the code formats or compares are sequences of one-         *)
(* character strings (<<"1","0">> is "10"); a whole word that the code     *)
(* only compares for equality is one token (<<"chunked">>).  Body bytes    *)
(* are numbered in the order the handler supplies them, so that a byte     *)
(* emitted twice, lost or out of order is visible.                         *)
(***************************************************************************)
EXTENDS Bags, FiniteSets, Integers, Sequences, TLC

\* ---------------------------------------------------------------- bounds
\* Number of data-supplying calls (Write, ReadFrom) the handler makes.
MaxData == 2

\* ------------------------------------------------------------ input sets
\* Status codes the handler passes to WriteHeader.
StatusCodes == {100, 204, 304, 404}
\* Lengths of the byte slices the handler passes to Write ("" and "hello").
WriteLens == {0, 5}
\* Lengths of the sources the handler passes to ReadFrom ("0123456789").
StreamLens == {0, 10}
\* Values the handler gives to Content-Length: "" and "10".
CLValues == {<<>>, <<"1", "0">>}
\* Values the handler gives to Transfer-Encoding.
TEValues == {<<"chunked">>, <<"gzip">>}

StatusOK == 200
StatusInternalServerError == 500

CL == "Content-Length"
TE == "Transfer-Encoding"
CRLF == <<"\r", "\n">>

\* ------------------------------------------------------- pure functions
Digits == <<"0", "1", "2", "3", "4", "5", "6", "7", "8", "9",
            "a", "b", "c", "d", "e", "f">>

RECURSIVE FormatInt(_, _)
\* strconv.FormatInt(n, base) for n >= 0
FormatInt(n, base) ==
    IF n < base THEN <<Digits[n + 1]>>
    ELSE FormatInt(n \div base, base) \o <<Digits[(n % base) + 1]>>

\* strconv.Itoa
Itoa(n) == FormatInt(n, 10)

\* http.Header.Get: the value stored under the key, "" when the key is absent
Get(h, k) == IF k \in DOMAIN h THEN h[k] ELSE <<>>

\* http.Header.Set
Set(h, k, v) == [x \in (DOMAIN h) \cup {k} |-> IF x = k THEN v ELSE h[x]]

\* http.Header.Del
Del(h, k) == [x \in (DOMAIN h) \ {k} |-> h[x]]

\* RFC 7230: status codes 1xx, 204 and 304 have no response body
NoBody(code) == (code >= 100 /\ code < 200) \/ code = 204 \/ code = 304

\* the calls on netpoll.Writer, as recorded in wire
StrItem(s) == [t |-> "str", v |-> s]
BinItem(d) == [t |-> "bin", v |-> d]
HdrItem(code, lines) == [t |-> "hdr", v |-> [status |-> code, lines |-> lines]]

\* the three write calls that emit one chunk: size line, data, CRLF
ChunkWrites(d) ==
    << StrItem(FormatInt(Len(d), 16) \o CRLF), BinItem(d), StrItem(CRLF) >>

\* the terminating chunk "0\r\n\r\n"
ZeroChunk == StrItem(<<"0">> \o CRLF \o CRLF)

\* the header lines written by the loop over rw.header: one per key
\* (Go iterates the map in no fixed order: a bag, not a sequence)
HeaderLines(h) == SetToBag({<<k, h[k]>> : k \in DOMAIN h})

\* ---------------------------------------------------------------- state
VARIABLES
    phase,        \* where handleRequest is: "handler", "returned", "ended", "released"
    header,       \* rw.header: a function from the keys present to their value
    statusCode,   \* rw.statusCode
    wroteHeader,  \* rw.wroteHeader
    hijacked,     \* rw.hijacked
    chunked,      \* rw.chunked
    body,         \* contents of rw.body
    bodyNil,      \* rw.body == nil
    bodyPuts,     \* number of bytebufferpool.Put calls made with this request's buffer
    wire,         \* the WriteBinary / WriteString calls issued on the netpoll.Writer
    broken,       \* the transport has failed: Flush and WriteBinary return an error
    ret,          \* the latest call ("void": one that returns nothing and writes
                  \* nothing), what it returned, how often it called writer.Flush
    hist,         \* history of the handler's calls (observation only)
    loop,         \* where ServeConn is: "parse", "handle", "wait", "done"
    result,       \* what ServeConn returned: "none" while it runs, "nil", "EOF",
                  \* "parse" (errors.New("failed to read request")), "io"
    ctxOut,       \* RequestContexts taken by NewRequestContext and not yet released
    chist,        \* history of the loop (observation only)
    reqs,         \* the requests the client sends on the connection, in order
    pending,      \* the part of the client's stream that has not arrived yet
    avail,        \* the part that has arrived and is readable on the connection
    rbuf,         \* the bytes held by the RequestContext's bufio.Reader
    req,          \* the request parsed by GetRequest, and how much of its body is unread
    disconnected, \* the peer is gone: OnDisconnect has cancelled the connection's context
    timer,        \* the context made by context.WithTimeout: "none", "armed",
                  \* "fired", "cancelled"
    hr,           \* the values handleRequest returns: err and hijacked
    requestTimeout, \* Engine.requestTimeout: 0, or 1 for a positive duration
    bpool,        \* the byte buffers: how often each is in bytebufferpool (n),
                  \* and whether it holds bytes (len: 0 or 1)
    task          \* the connection tasks: where each is in handleRequest, its
                  \* rw.body and rw.hijacked

\* the response writer and the transport's writer
rwVars == << phase, header, statusCode, wroteHeader, hijacked, chunked, body,
             bodyNil, bodyPuts, wire, broken, ret, hist >>

\* ServeConn's position and result
loopVars == << loop, result, ctxOut, chist, requestTimeout >>

\* the connection's input side
netVars == << reqs, pending, avail, rbuf, req, disconnected >>

\* the byte buffer pool and the connection tasks that share it
poolVars == << bpool, task >>

vars == << rwVars, loopVars, netVars, timer, hr, poolVars >>

\* Number of byte buffers, of connection tasks, and of times a buffer can be
\* in the pool.
MaxBufs == 2
MaxTasks == 2
MaxPooled == 2

Bufs == 1..MaxBufs
Tasks == 1..MaxTasks

\* a connection task between two requests; body = 0 is rw.body == nil, owns
\* is true from the Get of the buffer to its first Put
Idle == [ pc |-> "idle", body |-> 0, owns |-> FALSE, hijacked |-> FALSE ]

\* an empty pool, no request in flight
PoolInit ==
    /\ bpool = [b \in Bufs |-> [ n |-> 0, len |-> 0 ]]
    /\ task = [t \in Tasks |-> Idle]

Ret(op, n, err, flushes) == [op |-> op, n |-> n, err |-> err, flushes |-> flushes]

\* NewResponseWriter: the state of a writer taken from rwPool
NewResponseWriter ==
    /\ header = << >>
    /\ statusCode = 0
    /\ wroteHeader = FALSE
    /\ hijacked = FALSE
    /\ chunked = FALSE
    /\ body = << >>
    /\ bodyNil = FALSE
    /\ bodyPuts = 0

\* the history of a writer on which nothing was called yet
NoCalls == [ commitBy |-> "none", hdrAtCommit |-> << >>,
             lastStatus |-> 0, overridden |-> FALSE,
             written |-> << >>, nextByte |-> 1, dataCalls |-> 0,
             flushCalled |-> FALSE ]

\* the history of a loop that has parsed nothing yet: the requests given to
\* the handler, the bytes a reader held when it was reset or replaced, and
\* whether a read ended (peer gone, deadline passed) before bytes that the
\* client had still to send, whether a handler panicked after the header was
\* committed, and whether a write or flush on the transport failed
NoRequests == [ handled |-> << >>, lost |-> << >>, cut |-> FALSE,
                latePanic |-> FALSE, ioFailed |-> FALSE ]

\* the loop's history with the event f noted when b holds; a writer that
\* is driven without a connection loop has no loop history to keep
Noted(f, b) ==
    IF b /\ reqs # << >> THEN [chist EXCEPT ![f] = TRUE] ELSE chist

\* one handleRequest call on a request without a body, no timeout configured
Init ==
    /\ NewResponseWriter
    /\ phase = "handler"
    /\ wire = << >>
    /\ broken = FALSE
    /\ ret = Ret("NewResponseWriter", 0, "nil", 0)
    /\ hist = NoCalls
    /\ requestTimeout = 0
    /\ loop = "handle"
    /\ result = "none"
    /\ ctxOut = 1
    /\ chist = NoRequests
    /\ reqs = << >>
    /\ pending = << >>
    /\ avail = << >>
    /\ rbuf = << >>
    /\ req = [ id |-> 1, Close |-> FALSE, connection |-> "keep-alive", unread |-> 0 ]
    /\ disconnected = FALSE
    /\ timer = "none"
    /\ hr = [ err |-> "none", hijacked |-> FALSE ]
    /\ PoolInit

\* ------------------------------------------------------------ operations
\* a record of hist fields set by the call that commits the header
Committed(by) == [hist EXCEPT !.commitBy = by, !.hdrAtCommit = header]

\* hist after a WriteHeader(code) call: before the commit, the code of the
\* latest call, and whether a call gave another code than the call before it
Called(code) ==
    IF wroteHeader \/ hijacked THEN hist
    ELSE [hist EXCEPT !.overridden = @ \/ (hist.lastStatus # 0 /\ code # hist.lastStatus),
                      !.lastStatus = code]

\* WriteHeader without the wroteHeader check
WriteHeaderTo_AfterCommit(code) ==
    IF hijacked THEN statusCode ELSE code

\* WriteHeader that keeps the first status code it was given
WriteHeaderTo_FirstWins(code) ==
    IF wroteHeader \/ hijacked \/ statusCode # 0 THEN statusCode ELSE code

\* ResponseWriter.WriteHeader: the status code after the call
WriteHeaderTo(code) ==
    IF wroteHeader \/ hijacked THEN statusCode ELSE code

WriteHeader(code) ==
    /\ phase = "handler"
    /\ statusCode' = WriteHeaderTo(code)
    /\ ret' = Ret("void", 0, "nil", 0)
    /\ hist' = Called(code)
    /\ UNCHANGED << phase, header, wroteHeader, hijacked, chunked, body,
                    bodyNil, bodyPuts, wire, broken >>
    /\ UNCHANGED << loopVars, netVars, timer, hr >>
    /\ UNCHANGED poolVars

\* ResponseWriter.Header() followed by http.Header.Set.  The handler sets
\* headers before the commit: the writer reads rw.header only in calls that
\* find wroteHeader and hijacked false, so a later Set or Del changes nothing
\* that the writer emits.
HeaderSet(k, v) ==
    /\ phase = "handler"
    /\ ~wroteHeader /\ ~hijacked
    /\ header' = Set(header, k, v)
    /\ ret' = Ret("void", 0, "nil", 0)
    /\ UNCHANGED << phase, statusCode, wroteHeader, hijacked, chunked, body,
                    bodyNil, bodyPuts, wire, broken, hist >>
    /\ UNCHANGED << loopVars, netVars, timer, hr >>
    /\ UNCHANGED poolVars

\* ResponseWriter.Header() followed by http.Header.Del
HeaderDel(k) ==
    /\ phase = "handler"
    /\ ~wroteHeader /\ ~hijacked
    /\ header' = Del(header, k)
    /\ ret' = Ret("void", 0, "nil", 0)
    /\ UNCHANGED << phase, statusCode, wroteHeader, hijacked, chunked, body,
                    bodyNil, bodyPuts, wire, broken, hist >>
    /\ UNCHANGED << loopVars, netVars, timer, hr >>
    /\ UNCHANGED poolVars

\* the status code a call leaves when it finds none set before the commit
DefaultStatus == IF statusCode = 0 THEN StatusOK ELSE statusCode

\* the bytes of the next slice or source of length n
NewBytes(n) == [i \in 1..n |-> hist.nextByte + i - 1]

\* ResponseWriter.Write: the hijacked check
WriteRefused == hijacked

\* ResponseWriter.Write
Write(n) ==
    /\ phase = "handler"
    /\ IF WriteRefused
       THEN /\ ret' = Ret("Write", 0, "hijacked", 0)
            /\ UNCHANGED << statusCode, body, hist >>
       ELSE /\ hist.dataCalls < MaxData
            /\ statusCode' = IF ~wroteHeader THEN DefaultStatus ELSE statusCode
            /\ body' = body \o NewBytes(n)
            /\ ret' = Ret("Write", n, "nil", 0)
            /\ hist' = [hist EXCEPT !.written = @ \o NewBytes(n),
                                    !.nextByte = @ + n,
                                    !.dataCalls = @ + 1]
    /\ UNCHANGED << phase, header, wroteHeader, hijacked, chunked,
                    bodyNil, bodyPuts, wire, broken >>
    /\ UNCHANGED << loopVars, netVars, timer, hr >>
    /\ UNCHANGED poolVars

\* writeHeaders that adds Content-Length whatever the status
AddsContentLength_AnyStatus(h, code) == Get(h, CL) = << >>

\* writeHeaders, lines 283-285: Content-Length is added only when the header
\* map has none and the status permits a body
AddsContentLength(h, code) == Get(h, CL) = << >> /\ ~NoBody(code)

\* writeHeaders, line 273: the chunked branch is taken
TakesChunked(isStreaming, code) == isStreaming /\ ~NoBody(code)

\* writeHeaders whose chunked branch keeps the caller's Content-Length
writeHeaders_KeepsCL(code, isStreaming) ==
    LET h1 == IF Get(header, "Date") = << >>
              THEN Set(header, "Date", <<"now">>) ELSE header
        h2 == IF Get(h1, "Content-Type") = << >> /\ Len(body) > 0
              THEN Set(h1, "Content-Type", <<"sniffed">>) ELSE h1
        ch == TakesChunked(isStreaming, code)
        h3 == IF ch
              THEN Del(h2, TE)
              ELSE Del(IF AddsContentLength(h2, code)
                       THEN Set(h2, CL, Itoa(Len(body))) ELSE h2, TE)
        first == IF ch THEN SetToBag({<<TE, <<"chunked">>>>}) ELSE EmptyBag
    IN  [ header |-> h3,
          chunked |-> (chunked \/ ch),
          item |-> HdrItem(code, first (+) HeaderLines(h3)) ]

\* ResponseWriter.writeHeaders, called with rw.wroteHeader false: the header
\* map and the chunked flag it leaves, and the header block it writes
writeHeaders(code, isStreaming) ==
    LET h1 == IF Get(header, "Date") = << >>
              THEN Set(header, "Date", <<"now">>) ELSE header
        h2 == IF Get(h1, "Content-Type") = << >> /\ Len(body) > 0
              THEN Set(h1, "Content-Type", <<"sniffed">>) ELSE h1
        ch == TakesChunked(isStreaming, code)
        h3 == IF ch
              THEN Del(Del(h2, CL), TE)
              ELSE Del(IF AddsContentLength(h2, code)
                       THEN Set(h2, CL, Itoa(Len(body))) ELSE h2, TE)
        first == IF ch THEN SetToBag({<<TE, <<"chunked">>>>}) ELSE EmptyBag
    IN  [ header |-> h3,
          chunked |-> (chunked \/ ch),
          item |-> HdrItem(code, first (+) HeaderLines(h3)) ]

RECURSIVE Concat(_)
\* the concatenation of a sequence of sequences
Concat(ss) == IF ss = << >> THEN << >> ELSE Head(ss) \o Concat(Tail(ss))

\* the blocks in which a source of n bytes is delivered by successive Reads:
\* all at once, or in two blocks
Blocks(n) ==
    LET d == NewBytes(n)
    IN  IF n = 0 THEN { << >> }
        ELSE { << d >>, << SubSeq(d, 1, 2), SubSeq(d, 3, n) >> }

\* shouldChunk that does not look for a Content-Length
shouldChunk_IgnoresCL(h) ==
    LET hasChunked == Get(h, TE) = <<"chunked">>
    IN  IF hasChunked THEN TRUE ELSE ~hasChunked

\* ReadFrom, lines 131-136: shouldChunk
shouldChunk(h) ==
    LET hasCL == CL \in DOMAIN h
        hasChunked == Get(h, TE) = <<"chunked">>
    IN  IF hasChunked THEN TRUE ELSE ~hasCL /\ ~hasChunked

\* ReadFrom, lines 149-179: the chunked copy loop
ChunkedCopy(blocks, er) ==
    IF broken /\ blocks # << >>
    THEN [ items |-> ChunkWrites(blocks[1]), n |-> 0, err |-> "io", flushes |-> 1 ]
    ELSE [ items |-> Concat([i \in 1..Len(blocks) |-> ChunkWrites(blocks[i])]),
           n |-> 0,
           err |-> IF er # "EOF" THEN er ELSE IF broken THEN "io" ELSE "nil",
           flushes |-> Len(blocks) + 1 ]

\* ReadFrom, lines 183-198: io.CopyBuffer into netpollWriterWrapper
FixedCopy(blocks, er) ==
    IF broken /\ blocks # << >>
    THEN [ items |-> << BinItem(blocks[1]) >>, n |-> 0, err |-> "io", flushes |-> 0 ]
    ELSE [ items |-> [i \in 1..Len(blocks) |-> BinItem(blocks[i])],
           n |-> Len(Concat(blocks)),
           err |-> IF er # "EOF" THEN er ELSE "nil",
           flushes |-> Len(blocks) ]

\* ResponseWriter.ReadFrom
ReadFrom(n, blocks, er) ==
    /\ phase = "handler"
    /\ IF hijacked
       THEN /\ ret' = Ret("ReadFrom", 0, "hijacked", 0)
            /\ UNCHANGED << header, statusCode, wroteHeader, chunked, wire, hist,
                            chist >>
       ELSE /\ hist.dataCalls < MaxData
            /\ LET commit == ~wroteHeader
                   wh == IF commit
                         THEN writeHeaders(DefaultStatus, shouldChunk(header))
                         ELSE [header |-> header, chunked |-> chunked, item |-> << >>]
                   hitems == IF commit THEN << wh.item >> ELSE << >>
                   hflush == IF commit THEN 1 ELSE 0
                   cp == IF wh.chunked THEN ChunkedCopy(blocks, er)
                                       ELSE FixedCopy(blocks, er)
                   h0 == IF commit THEN Committed("ReadFrom") ELSE hist
               IN  /\ statusCode' = IF commit THEN DefaultStatus ELSE statusCode
                   /\ wroteHeader' = TRUE
                   /\ header' = wh.header
                   /\ chunked' = wh.chunked
                   /\ IF commit /\ broken
                      THEN /\ wire' = wire \o hitems
                           /\ ret' = Ret("ReadFrom", 0, "io", 1)
                      ELSE /\ wire' = wire \o hitems \o cp.items
                           /\ ret' = Ret("ReadFrom", cp.n, cp.err, hflush + cp.flushes)
                   /\ hist' = [h0 EXCEPT !.nextByte = @ + n,
                                         !.dataCalls = @ + 1]
                   /\ chist' = Noted("ioFailed", broken /\ (commit \/ wh.chunked
                                                             \/ blocks # << >>))
    /\ UNCHANGED << phase, hijacked, body, bodyNil, bodyPuts, broken >>
    /\ UNCHANGED << loop, result, ctxOut, requestTimeout, netVars, timer, hr >>
    /\ UNCHANGED poolVars

\* Flush without the hijacked check
FlushRefused_Never == FALSE

\* ResponseWriter.Flush: the hijacked check
FlushRefused == hijacked

\* ResponseWriter.Flush
Flush ==
    /\ phase = "handler"
    /\ IF FlushRefused
       THEN /\ ret' = Ret("Flush", 0, "nil", 0)
            /\ UNCHANGED << header, statusCode, wroteHeader, chunked, body, wire, hist,
                            chist >>
       ELSE LET commit == ~wroteHeader
                wh == IF commit
                      THEN writeHeaders(DefaultStatus, TRUE)
                      ELSE [header |-> header, chunked |-> chunked, item |-> << >>]
                h0 == IF commit THEN Committed("Flush") ELSE hist
            IN  /\ statusCode' = IF commit THEN DefaultStatus ELSE statusCode
                /\ wroteHeader' = TRUE
                /\ header' = wh.header
                /\ chunked' = wh.chunked
                /\ wire' = wire \o (IF commit THEN << wh.item >> ELSE << >>)
                                \o (IF Len(body) > 0 THEN ChunkWrites(body) ELSE << >>)
                /\ body' = << >>
                /\ ret' = Ret("Flush", 0, "nil", 1)
                /\ hist' = [h0 EXCEPT !.flushCalled = TRUE]
                /\ chist' = Noted("ioFailed", broken)
    /\ UNCHANGED << phase, hijacked, bodyNil, bodyPuts, broken >>
    /\ UNCHANGED << loop, result, ctxOut, requestTimeout, netVars, timer, hr >>
    /\ UNCHANGED poolVars

\* Hijack without the hijacked check
HijackRefused_Never == FALSE

\* ResponseWriter.Hijack: the condition under which the call is refused
HijackRefused == hijacked

\* ResponseWriter.Hijack; ret.n = 1 stands for a non-nil net.Conn returned
Hijack ==
    /\ phase = "handler"
    /\ IF HijackRefused
       THEN /\ ret' = Ret("Hijack", 0, "hijacked", 0)
            /\ UNCHANGED hijacked
       ELSE /\ hijacked' = TRUE
            /\ ret' = Ret("Hijack", 1, "nil", 0)
    /\ UNCHANGED << phase, header, statusCode, wroteHeader, chunked, body,
                    bodyNil, bodyPuts, wire, broken, hist >>
    /\ UNCHANGED << loopVars, netVars, timer, hr >>
    /\ UNCHANGED poolVars

\* handleRequest without the call of cancel()
cancel_Never == timer

\* Engine.handleRequest, lines 114-116: cancel() is called when a timeout was
\* configured; the timer context after the call
cancel == IF timer = "none" THEN "none" ELSE "cancelled"

\* Engine.handleRequest, lines 111-116: the handler returns
HandlerReturn ==
    /\ phase = "handler"
    /\ phase' = "returned"
    /\ ret' = Ret("ServeHTTP", 0, "nil", 0)
    /\ UNCHANGED << header, statusCode, wroteHeader, hijacked, chunked, body,
                    bodyNil, bodyPuts, wire, broken, hist >>
    /\ timer' = cancel
    /\ UNCHANGED << loopVars, netVars, hr >>
    /\ UNCHANGED poolVars

\* Engine.handleRequest, lines 105-116: the handler panics; the deferred
\* recover calls WriteHeader(500)
HandlerPanic ==
    /\ phase = "handler"
    /\ phase' = "returned"
    /\ statusCode' = WriteHeaderTo(StatusInternalServerError)
    /\ ret' = Ret("recover", 0, "nil", 0)
    /\ hist' = Called(StatusInternalServerError)
    /\ chist' = Noted("latePanic", hist.commitBy \in {"Flush", "ReadFrom"})
    /\ UNCHANGED << header, wroteHeader, hijacked, chunked, body,
                    bodyNil, bodyPuts, wire, broken >>
    /\ timer' = cancel
    /\ UNCHANGED << loop, result, ctxOut, requestTimeout, netVars, hr >>
    /\ UNCHANGED poolVars

\* EndResponse, line 313: isStreaming
isStreaming(h) == Get(h, TE) = <<"chunked">>

\* Hijacked() answering false whatever the writer's state
Hijacked_Never == FALSE

\* ResponseWriter.Hijacked
Hijacked == hijacked

\* ResponseWriter.EndResponse, called by handleRequest once the handler is
\* back (lines 118-123): its error and Hijacked() are what handleRequest returns
EndResponse ==
    /\ phase = "returned"
    /\ phase' = "ended"
    /\ IF hijacked
       THEN /\ bodyPuts' = bodyPuts + 1
            /\ ret' = Ret("EndResponse", 0, "nil", 0)
            /\ UNCHANGED << header, statusCode, wroteHeader, chunked, body,
                            bodyNil, wire, hist, chist >>
       ELSE LET commit == ~wroteHeader
                code == IF commit THEN DefaultStatus ELSE statusCode
                wh == IF commit
                      THEN writeHeaders(code, isStreaming(header))
                      ELSE [header |-> header, chunked |-> chunked, item |-> << >>]
                hitems == IF commit THEN << wh.item >> ELSE << >>
                noBody == NoBody(code)
                emits == ~noBody /\ Len(body) > 0
            IN  /\ statusCode' = code
                /\ wroteHeader' = TRUE
                /\ header' = wh.header
                /\ chunked' = wh.chunked
                /\ hist' = (IF commit THEN Committed("EndResponse") ELSE hist)
                /\ chist' = Noted("ioFailed", broken)
                /\ UNCHANGED body
                /\ IF wh.chunked
                   THEN /\ wire' = wire \o hitems
                                     \o (IF emits THEN ChunkWrites(body) ELSE << >>)
                                     \o << ZeroChunk >>
                        /\ bodyPuts' = bodyPuts + 1
                        /\ bodyNil' = TRUE
                        /\ ret' = Ret("EndResponse", 0, IF broken THEN "io" ELSE "nil", 1)
                   ELSE /\ wire' = wire \o hitems
                                     \o (IF emits THEN << BinItem(body) >> ELSE << >>)
                        /\ bodyPuts' = bodyPuts + 1
                        /\ IF emits /\ broken
                           THEN /\ UNCHANGED bodyNil
                                /\ ret' = Ret("EndResponse", 0, "io", 0)
                           ELSE /\ bodyNil' = TRUE
                                /\ ret' = Ret("EndResponse", 0,
                                              IF broken THEN "io" ELSE "nil", 1)
    /\ UNCHANGED << hijacked, broken >>
    /\ hr' = [ err |-> ret'.err, hijacked |-> Hijacked ]
    /\ UNCHANGED << loop, result, ctxOut, requestTimeout, netVars, timer >>
    /\ UNCHANGED poolVars

\* ResponseWriter.Release, deferred by handleRequest
Release ==
    /\ phase = "ended"
    /\ phase' = "released"
    /\ bodyPuts' = IF bodyNil THEN bodyPuts ELSE bodyPuts + 1
    /\ bodyNil' = TRUE
    /\ header' = << >>
    /\ ret' = Ret("Release", 0, "nil", 0)
    /\ UNCHANGED << statusCode, wroteHeader, hijacked, chunked, body, wire,
                    broken, hist >>
    /\ UNCHANGED << loopVars, netVars, timer, hr >>
    /\ UNCHANGED poolVars

\* the connection fails under the handler: from now on the writer's Flush
\* and WriteBinary return an error
TransportFails ==
    /\ phase = "handler"
    /\ ~broken
    /\ broken' = TRUE
    /\ ret' = Ret("void", 0, "nil", 0)
    /\ UNCHANGED << phase, header, statusCode, wroteHeader, hijacked, chunked,
                    body, bodyNil, bodyPuts, wire, hist >>
    /\ UNCHANGED << loopVars, netVars, timer, hr >>
    /\ UNCHANGED poolVars

\* the transport works again (a write deadline that passed, part_001:90-92,
\* does not end the connection)
TransportRecovers ==
    /\ phase = "handler"
    /\ broken
    /\ broken' = FALSE
    /\ ret' = Ret("void", 0, "nil", 0)
    /\ UNCHANGED << phase, header, statusCode, wroteHeader, hijacked, chunked,
                    body, bodyNil, bodyPuts, wire, hist >>
    /\ UNCHANGED << loopVars, netVars, timer, hr >>
    /\ UNCHANGED poolVars

Next ==
    \/ \E code \in StatusCodes : WriteHeader(code)
    \/ \E v \in CLValues : HeaderSet(CL, v)
    \/ \E v \in TEValues : HeaderSet(TE, v)
    \/ \E k \in {CL, TE} : HeaderDel(k)
    \/ \E n \in WriteLens : Write(n)
    \/ \E n \in StreamLens : \E b \in Blocks(n) : \E er \in {"EOF", "read"} :
           ReadFrom(n, b, er)
    \/ Flush
    \/ Hijack
    \/ HandlerReturn
    \/ HandlerPanic
    \/ EndResponse
    \/ Release
    \/ TransportFails

Spec == Init /\ [][Next]_vars

\* ------------------------------------------------------- connection loop
\* Number of requests the client sends on one connection.
MaxReqs == 2

\* The requests a client sends: a keep-alive request with a body of two
\* parts, a request with "Connection: close" (for which http.ReadRequest
\* sets Close) and no body, and a malformed one.
Shapes ==
    { [ok |-> TRUE, Close |-> FALSE, connection |-> "keep-alive", body |-> 2],
      [ok |-> TRUE, Close |-> TRUE, connection |-> "close", body |-> 0],
      [ok |-> FALSE, Close |-> FALSE, connection |-> "keep-alive", body |-> 0] }

\* Values of Engine.requestTimeout: none, a positive duration
Timeouts == {0, 1}

\* a unit of the client's stream: the head of request r (j = 0) or the j-th
\* part of its body
Item(r, k, j) == [r |-> r, k |-> k, j |-> j]

RECURSIVE Stream(_, _)
\* the bytes of the requests rs[i], rs[i+1], ... in the order they are sent
Stream(rs, i) ==
    IF i > Len(rs) THEN << >>
    ELSE << Item(i, "head", 0) >>
         \o [j \in 1..rs[i].body |-> Item(i, "body", j)]
         \o Stream(rs, i + 1)

\* ServeConn is called with the connection's first bytes still to come
ConnInit ==
    /\ NewResponseWriter
    /\ phase = "released"
    /\ wire = << >>
    /\ broken = FALSE
    /\ ret = Ret("NewResponseWriter", 0, "nil", 0)
    /\ hist = NoCalls
    /\ loop = "parse"
    /\ result = "none"
    /\ ctxOut = 0
    /\ chist = NoRequests
    /\ reqs \in [1..MaxReqs -> Shapes]
    /\ pending = Stream(reqs, 1)
    /\ avail = << >>
    /\ rbuf = << >>
    /\ req = [ id |-> 0, Close |-> FALSE, connection |-> "keep-alive", unread |-> 0 ]
    /\ disconnected = FALSE
    /\ timer = "none"
    /\ hr = [ err |-> "none", hijacked |-> FALSE ]
    /\ requestTimeout \in Timeouts
    /\ PoolInit

\* the client's next bytes reach the connection
Arrive ==
    /\ loop # "done"
    /\ pending # << >>
    /\ avail' = Append(avail, Head(pending))
    /\ pending' = Tail(pending)
    /\ UNCHANGED << rwVars, loopVars, reqs, rbuf, req, disconnected, timer, hr >>
    /\ UNCHANGED poolVars

\* Server.Serve, OnDisconnect: the peer is gone; what it had not sent never
\* comes, reads return EOF once the bytes that arrived are taken, and the
\* connection's context is cancelled
OnDisconnect ==
    /\ loop # "done"
    /\ ~disconnected
    /\ disconnected' = TRUE
    /\ pending' = << >>
    /\ chist' = [chist EXCEPT !.cut = @ \/ (pending # << >>)]
    /\ UNCHANGED << rwVars, loop, result, ctxOut, requestTimeout, reqs, avail,
                    rbuf, req, timer, hr >>
    /\ UNCHANGED poolVars

\* RequestContext.GetReader: what the reader holds when GetRequest starts to
\* read (a new bufio.Reader, or the old one after Reset)
GetReader == << >>

\* one Read of the bufio.Reader on the connection takes the bytes that are
\* readable (the reader's 4096-byte buffer is larger than the streams here)
Fill == avail

\* a Read on the connection with nothing readable: io.EOF when the peer is
\* gone, else the read deadline set by OnPrepare passes
ReadFails == IF disconnected THEN "EOF" ELSE "timeout"

\* http.ReadRequest on what the reader finds: a request head, something else,
\* or no byte at all
ReadRequest(in) ==
    IF in = << >> THEN ReadFails
    ELSE IF in[1].k = "head" /\ reqs[in[1].r].ok THEN "ok" ELSE "malformed"

\* GetRequest without the errors.Is(err, io.EOF) branch
GetRequest_NoEOFBranch(in) ==
    IF ReadRequest(in) = "ok" THEN "nil" ELSE "parse"

\* GetRequest: the error it returns
GetRequest(in) ==
    LET r == ReadRequest(in)
    IN  IF r = "ok" THEN "nil" ELSE IF r = "EOF" THEN "EOF" ELSE "parse"

\* Engine.handleRequest, lines 96-100: the timeout context
WithTimeout == IF requestTimeout > 0 THEN "armed" ELSE "none"

\* ServeConn, lines 51-58, with handleRequest up to the call of the handler:
\* NewRequestContext, GetRequest, and either the error return with Release
\* or NewResponseWriter and the timeout context
ParseRequest ==
    /\ loop = "parse"
    /\ LET in == GetReader \o Fill
           err == GetRequest(in)
       IN  /\ avail' = << >>
           /\ IF err = "nil"
              THEN /\ rbuf' = Tail(in)
                   /\ req' = [ id |-> in[1].r,
                               Close |-> reqs[in[1].r].Close,
                               connection |-> reqs[in[1].r].connection,
                               unread |-> reqs[in[1].r].body ]
                   /\ chist' = [chist EXCEPT !.lost = @ \o rbuf,
                                             !.handled = Append(@, in[1].r)]
                   /\ loop' = "handle"
                   /\ ctxOut' = ctxOut + 1
                   /\ timer' = WithTimeout
                   /\ phase' = "handler"
                   /\ header' = << >>
                   /\ statusCode' = 0
                   /\ wroteHeader' = FALSE
                   /\ hijacked' = FALSE
                   /\ chunked' = FALSE
                   /\ body' = << >>
                   /\ bodyNil' = FALSE
                   /\ bodyPuts' = 0
                   /\ wire' = << >>
                   /\ ret' = Ret("NewResponseWriter", 0, "nil", 0)
                   /\ hist' = NoCalls
                   /\ UNCHANGED << result, hr >>
              ELSE /\ rbuf' = in
                   /\ chist' = [chist EXCEPT !.lost = @ \o rbuf,
                                             !.cut = @ \/ (in = << >> /\ pending # << >>)]
                   /\ loop' = "done"
                   /\ result' = err
                   /\ ctxOut' = (ctxOut + 1) - 1
                   /\ hr' = [ err |-> err, hijacked |-> FALSE ]
                   /\ UNCHANGED << req, timer, phase, header, statusCode,
                                   wroteHeader, hijacked, chunked, body,
                                   bodyNil, bodyPuts, wire, ret, hist >>
    /\ UNCHANGED << broken, reqs, pending, disconnected, requestTimeout >>
    /\ UNCHANGED poolVars

\* the handler reads the next part of the request body from req.Body, which
\* reads through the RequestContext's reader
ReadBody ==
    /\ loop = "handle"
    /\ phase = "handler"
    /\ req.unread > 0
    /\ rbuf # << >> \/ avail # << >>
    /\ IF rbuf # << >>
       THEN rbuf' = Tail(rbuf) /\ UNCHANGED avail
       ELSE rbuf' = Tail(Fill) /\ avail' = << >>
    /\ req' = [req EXCEPT !.unread = @ - 1]
    /\ UNCHANGED << rwVars, loopVars, reqs, pending, disconnected, timer, hr >>
    /\ UNCHANGED poolVars

\* the deadline of the timeout context passes while the handler runs
TimeoutFires ==
    /\ loop = "handle"
    /\ phase = "handler"
    /\ timer = "armed"
    /\ timer' = "fired"
    /\ UNCHANGED << rwVars, loopVars, netVars, hr >>
    /\ UNCHANGED poolVars

\* ServeConn, lines 55-58: handleRequest returned an error
ServeConnFails ==
    /\ loop = "handle"
    /\ phase = "released"
    /\ hr.err # "nil"
    /\ ctxOut' = ctxOut - 1
    /\ loop' = "done"
    /\ result' = hr.err
    /\ UNCHANGED << rwVars, chist, requestTimeout, netVars, timer, hr >>
    /\ UNCHANGED poolVars

\* ServeConn, line 60: the request was hijacked; the loop waits on ctx.Done()
ServeConnHijacked ==
    /\ loop = "handle"
    /\ phase = "released"
    /\ hr.err = "nil"
    /\ hr.hijacked
    /\ loop' = "wait"
    /\ UNCHANGED << rwVars, result, ctxOut, chist, requestTimeout, netVars, timer, hr >>
    /\ UNCHANGED poolVars

\* the connection's context is done
Done == disconnected

\* ServeConn, lines 61-62: <-ctx.Done() returns
ServeConnWakes ==
    /\ loop = "wait"
    /\ Done
    /\ loop' = "done"
    /\ result' = "nil"
    /\ UNCHANGED << rwVars, ctxOut, chist, requestTimeout, netVars, timer, hr >>
    /\ UNCHANGED poolVars

\* GetRequest: the parent of the context of the request it returns.  The
\* request comes from http.ReadRequest, whose context is
\* context.Background(); RequestContext.Req(), the connection's context, is
\* not given to it.
RequestParent == "background"

\* the context the handler finds on its request is done: its parent is, or
\* the timeout context made from it has fired or was cancelled
RequestDone ==
    \/ (RequestParent = "connection" /\ Done)
    \/ timer \in {"fired", "cancelled"}

\* ServeConn, line 76: the keep-alive decision
ShouldClose(r) == r.Close \/ r.connection = "close"

\* ServeConn, lines 65-79: the unread part of the body is read and discarded
\* (when a read fails before the body is complete the copy ends there and its
\* error is dropped), the RequestContext is released, and the loop ends or
\* goes on with the next request
ServeConnDrain ==
    /\ loop = "handle"
    /\ phase = "released"
    /\ hr.err = "nil"
    /\ ~hr.hijacked
    /\ LET need == req.unread
           inBuf == need <= Len(rbuf)
           all == rbuf \o Fill
           short == need > Len(all)
       IN  /\ IF inBuf
              THEN rbuf' = SubSeq(rbuf, need + 1, Len(rbuf)) /\ UNCHANGED avail
              ELSE rbuf' = SubSeq(all, need + 1, Len(all)) /\ avail' = << >>
           /\ req' = [req EXCEPT !.unread = IF short THEN need - Len(all) ELSE 0]
           /\ chist' = [chist EXCEPT !.cut = @ \/ (short /\ pending # << >>)]
    /\ ctxOut' = ctxOut - 1
    /\ IF ShouldClose(req)
       THEN loop' = "done" /\ result' = "nil"
       ELSE loop' = "parse" /\ UNCHANGED result
    /\ UNCHANGED << rwVars, requestTimeout, reqs, pending, disconnected,
                    timer, hr >>
    /\ UNCHANGED poolVars

\* The handler of the connection loop's specification writes "hello", flushes,
\* hijacks, reads the request body, returns or panics.
ConnNext ==
    \/ Arrive
    \/ OnDisconnect
    \/ ParseRequest
    \/ ReadBody
    \/ TimeoutFires
    \/ \E n \in WriteLens \ {0} : Write(n)
    \/ Flush
    \/ Hijack
    \/ TransportFails
    \/ TransportRecovers
    \/ HandlerReturn
    \/ HandlerPanic
    \/ EndResponse
    \/ Release
    \/ ServeConnFails
    \/ ServeConnHijacked
    \/ ServeConnWakes
    \/ ServeConnDrain

ConnSpec == ConnInit /\ [][ConnNext]_vars

\* The connection loop with a handler that flushes, hijacks, reads the
\* request body, returns or panics, no request timeout configured.
LoopInit == ConnInit /\ requestTimeout = 0

LoopNext ==
    \/ Arrive
    \/ OnDisconnect
    \/ ParseRequest
    \/ ReadBody
    \/ Flush
    \/ Hijack
    \/ TransportFails
    \/ HandlerReturn
    \/ HandlerPanic
    \/ EndResponse
    \/ Release
    \/ ServeConnFails
    \/ ServeConnHijacked
    \/ ServeConnWakes
    \/ ServeConnDrain

\* ServeConn runs in a goroutine of its own: once the handler is back, the
\* deferred Release, the hijacked check and the return after <-ctx.Done()
\* are each taken when they can be
LoopSpec ==
    /\ LoopInit
    /\ [][LoopNext]_vars
    /\ WF_vars(Release)
    /\ WF_vars(ServeConnHijacked)
    /\ WF_vars(ServeConnWakes)

\* The same loop and handler with a request timeout configured or not, and
\* deadlines that pass while the handler runs.
TimeoutNext ==
    \/ LoopNext
    \/ TimeoutFires

TimeoutSpec == ConnInit /\ [][TimeoutNext]_vars

\* ------------------------------------------------------ byte buffer pool
\* a new byte buffer: one that is in no pool and that no task refers to
Fresh == { b \in Bufs : bpool[b].n = 0 /\ \A t \in Tasks : task[t].body # b }

\* bytebufferpool.Get: a buffer that is in the pool, or a new one
bytebufferpoolGet == { b \in Bufs : bpool[b].n > 0 } \cup Fresh

\* the pool after the Get that returned b
Taken(b) == IF bpool[b].n > 0 THEN [bpool EXCEPT ![b].n = @ - 1] ELSE bpool

\* bytebufferpool.Put: the pool takes what it is given, emptied
bytebufferpoolPut(b) == [bpool EXCEPT ![b] = [ n |-> @.n + 1, len |-> 0 ]]

\* NewResponseWriter, line 64, in task t: rw.body = bytebufferpool.Get()
PoolNewResponseWriter(t) ==
    /\ task[t].pc = "idle"
    /\ \E b \in bytebufferpoolGet :
          /\ task' = [task EXCEPT ![t] = [ pc |-> "handler", body |-> b,
                                          owns |-> TRUE, hijacked |-> FALSE ]]
          /\ bpool' = Taken(b)
    /\ UNCHANGED << rwVars, loopVars, netVars, timer, hr >>

\* the handler of task t returns, having hijacked the connection or not, and
\* having written to rw.body (Write, line 109) or not
PoolHandler(t) ==
    /\ task[t].pc = "handler"
    /\ \E h \in BOOLEAN :
          task' = [task EXCEPT ![t].pc = "returned", ![t].hijacked = h]
    /\ \E w \in BOOLEAN :
          bpool' = IF w THEN [bpool EXCEPT ![task[t].body].len = 1] ELSE bpool
    /\ UNCHANGED << rwVars, loopVars, netVars, timer, hr >>

\* EndResponse in task t, what it does with rw.body: on the hijacked path
\* (lines 307-310) and when the write of a non-empty fixed-length body fails
\* (lines 341-346) it puts the buffer back and keeps rw.body; else it puts it back
\* and sets rw.body to nil (lines 350-351)
PoolEndResponse(t) ==
    /\ task[t].pc = "returned"
    /\ bpool[task[t].body].n < MaxPooled
    /\ bpool' = bytebufferpoolPut(task[t].body)
    /\ \E failed \in (IF bpool[task[t].body].len > 0 THEN BOOLEAN ELSE {FALSE}) :
          task' = [task EXCEPT ![t].pc = "ended",
                               ![t].owns = FALSE,
                               ![t].body = IF task[t].hijacked \/ failed
                                           THEN @ ELSE 0]
    /\ UNCHANGED << rwVars, loopVars, netVars, timer, hr >>

\* Release in task t, lines 77-80: rw.body is put back unless it is nil
PoolRelease(t) ==
    /\ task[t].pc = "ended"
    /\ IF task[t].body # 0
       THEN /\ bpool[task[t].body].n < MaxPooled
            /\ bpool' = bytebufferpoolPut(task[t].body)
       ELSE UNCHANGED bpool
    /\ task' = [task EXCEPT ![t] = Idle]
    /\ UNCHANGED << rwVars, loopVars, netVars, timer, hr >>

PoolNext ==
    \E t \in Tasks :
        \/ PoolNewResponseWriter(t)
        \/ PoolHandler(t)
        \/ PoolEndResponse(t)
        \/ PoolRelease(t)

\* connection tasks that share the byte buffer pool, each serving one
\* request after the other
PoolSpec == Init /\ [][PoolNext]_vars

\* ---------------------------------------------------------- observations
\* the header block on the wire (the first write the writer issues)
Emitted == wire[1].v

\* the header block has a line for the header k
HasLine(k) == \E l \in BagToSet(Emitted.lines) : l[1] = k

\* the number of "Transfer-Encoding: chunked" lines in the header block
TEChunkedLines == CopiesIn(<<TE, <<"chunked">>>>, Emitted.lines)

\* the writes issued after the header block
BodyWrites == Tail(wire)

\* the data bytes on the wire, in order, without the framing
Payload == Concat([i \in 1..Len(SelectSeq(BodyWrites, LAMBDA it : it.t = "bin"))
                     |-> SelectSeq(BodyWrites, LAMBDA it : it.t = "bin")[i].v])

\* the bytes on the wire that the handler gave to Write
WrittenPayload ==
    SelectSeq(Payload, LAMBDA b : \E i \in 1..Len(hist.written) : hist.written[i] = b)

RECURSIVE Atoi(_)
\* the number a decimal string denotes; -1 for the empty string
Atoi(s) ==
    IF s = << >> THEN -1
    ELSE LET d == CHOOSE i \in 0..9 : Digits[i + 1] = s[Len(s)]
         IN  IF Len(s) = 1 THEN d ELSE 10 * Atoi(SubSeq(s, 1, Len(s) - 1)) + d

\* two write calls are the same call with the same argument
SameWrite(a, b) == a.t = b.t /\ a.v = b.v

\* two sequences of write calls are the same
SameWrites(ws, xs) ==
    /\ Len(ws) = Len(xs)
    /\ \A i \in 1..Len(ws) : SameWrite(ws[i], xs[i])

RECURSIVE ChunkStream(_)
\* ws is a sequence of non-empty chunks, each written as size line, data, CRLF
ChunkStream(ws) ==
    \/ Len(ws) = 0
    \/ /\ Len(ws) >= 3
       /\ ws[2].t = "bin"
       /\ ws[2].v # << >>
       /\ SameWrites(SubSeq(ws, 1, 3), ChunkWrites(ws[2].v))
       /\ ChunkStream(SubSeq(ws, 4, Len(ws)))

\* the write call it is the terminating chunk
IsZeroChunk(it) == SameWrite(it, ZeroChunk)

\* the number of terminating chunks on the wire
ZeroChunks == Len(SelectSeq(wire, IsZeroChunk))

Finished == phase \in {"ended", "released"}

\* ------------------------------------------------------------------ C1
\* C1: when EndResponse commits the header of a response on which no
\* Content-Length was set (no Flush, no ReadFrom came before), with a status
\* that permits a body, the header block has "Transfer-Encoding: chunked" and
\* no Content-Length, and the buffered body follows as one chunk ("5\r\n" for
\* five bytes) and the terminating chunk.
C1_DefaultChunked ==
    ( /\ Finished
      /\ hist.commitBy = "EndResponse"
      /\ CL \notin DOMAIN hist.hdrAtCommit
      /\ ~NoBody(Emitted.status) )
    => /\ TEChunkedLines = 1
       /\ ~HasLine(CL)
       /\ SameWrites(BodyWrites, (IF hist.written = << >> THEN << >>
                                  ELSE ChunkWrites(hist.written)) \o << ZeroChunk >>)
       /\ Len(hist.written) = 5 => SameWrite(wire[2], StrItem(<<"5", "\r", "\n">>))

\* ------------------------------------------------------------------ C2
\* C2: a Hijack called once the header is committed returns an error and no
\* transport and leaves hijacked false.
C2_HijackAfterCommitFails ==
    (ret.op = "Hijack" /\ wroteHeader)
    => (ret.err # "nil" /\ ret.n = 0 /\ ~hijacked)

\* ------------------------------------------------------------------ C3
\* the response was committed by ReadFrom or EndResponse with a Content-Length
\* set by the handler, and Flush was not called
CommittedWithCL ==
    /\ wroteHeader
    /\ hist.commitBy \in {"ReadFrom", "EndResponse"}
    /\ CL \in DOMAIN hist.hdrAtCommit
    /\ ~hist.flushCalled

\* C3 as stated: with a Content-Length set before the commit, the header block
\* never has "Transfer-Encoding: chunked", it has the handler's Content-Length,
\* and the body is written unframed with that total length.
C3_Original ==
    (CommittedWithCL /\ Finished)
    => /\ TEChunkedLines = 0
       /\ CopiesIn(<<CL, hist.hdrAtCommit[CL]>>, Emitted.lines) = 1
       /\ \A i \in 1..Len(BodyWrites) : BodyWrites[i].t = "bin"
       /\ Len(Payload) = Atoi(hist.hdrAtCommit[CL])

\* C3 as amended: with a non-empty Content-Length set before the commit and
\* no "Transfer-Encoding: chunked" set with it, the header block has no
\* Transfer-Encoding line, it has the handler's Content-Length, the response
\* is not chunked and every body write is unframed data (the writer does not
\* compare the length of the data with the declared one).
C3_FixedWhenContentLength ==
    ( /\ CommittedWithCL
      /\ hist.hdrAtCommit[CL] # << >>
      /\ Get(hist.hdrAtCommit, TE) # <<"chunked">> )
    => /\ TEChunkedLines = 0
       /\ ~HasLine(TE)
       /\ ~chunked
       /\ CopiesIn(<<CL, hist.hdrAtCommit[CL]>>, Emitted.lines) = 1
       /\ \A l \in BagToSet(Emitted.lines) : l[1] = CL => l[2] = hist.hdrAtCommit[CL]
       /\ \A i \in 1..Len(BodyWrites) : BodyWrites[i].t = "bin"

\* C3 witness: "Content-Length: 10", ten bytes streamed by ReadFrom, ended
C3_Witness ==
    /\ CommittedWithCL
    /\ Finished
    /\ hist.commitBy = "ReadFrom"
    /\ hist.hdrAtCommit[CL] = <<"1", "0">>
    /\ TE \notin DOMAIN hist.hdrAtCommit
    /\ Len(Payload) = 10

\* ------------------------------------------------------------------ C4
\* C4 as stated: for a status in {1xx, 204, 304} the header block has neither
\* a Content-Length nor a Transfer-Encoding line.
C4_Original ==
    (wroteHeader /\ NoBody(Emitted.status))
    => (~HasLine(CL) /\ ~HasLine(TE))

\* C4 as amended: for a status in {1xx, 204, 304} the header block has no
\* Transfer-Encoding line, and no Content-Length line other than the one the
\* handler set itself: the writer adds none.
C4_NoBodyHeaders ==
    (wroteHeader /\ NoBody(Emitted.status))
    => /\ ~HasLine(TE)
       /\ TEChunkedLines = 0
       /\ \A l \in BagToSet(Emitted.lines) :
             l[1] = CL => (CL \in DOMAIN hist.hdrAtCommit /\ l[2] = hist.hdrAtCommit[CL])

\* C4 witness: a 204 committed with "Transfer-Encoding: chunked" set and
\* bytes buffered by Write
C4_Witness ==
    /\ wroteHeader
    /\ Emitted.status = 204
    /\ Get(hist.hdrAtCommit, TE) = <<"chunked">>
    /\ hist.written # << >>
    /\ ~HasLine(CL)

\* ------------------------------------------------------------------ C5
\* C5: for a status in {1xx, 204, 304} nothing is written after the header
\* block.
C5_NoBodyNoBytes ==
    (wroteHeader /\ NoBody(Emitted.status)) => BodyWrites = << >>

\* ------------------------------------------------------------------ C6
\* C6 as stated: once WriteHeader has been called, every later call before
\* the commit is ignored: the status code stays the one of the first call.
C6_Original ==
    [][ (hist.lastStatus # 0 /\ ~wroteHeader) => statusCode' = statusCode ]_vars

\* C6 as amended: the status of the status line is the one given by the last
\* WriteHeader call before the commit, and no later call changes it.
C6_LastCallerWins ==
    (wroteHeader /\ hist.lastStatus # 0)
    => (Emitted.status = hist.lastStatus /\ statusCode = hist.lastStatus)

\* C6 witness: two calls with different codes and a Write, then the commit
C6_Witness ==
    /\ wroteHeader
    /\ hist.overridden
    /\ hist.written # << >>
    /\ Emitted.status = hist.lastStatus

\* ------------------------------------------------------------------ C7
\* C7: once hijacked is true no call writes to the transport or flushes it,
\* and Write and ReadFrom return (0, errHijacked) and leave the body buffer
\* as it is.
C7_HijackedTouchesNothing ==
    [][ hijacked =>
          /\ wire' = wire
          /\ ret'.flushes = 0
          /\ ret'.op \in {"Write", "ReadFrom"} =>
                (ret'.n = 0 /\ ret'.err = "hijacked" /\ body' = body) ]_vars

\* C7 witness: a ReadFrom refused on a hijacked writer that holds buffered bytes
C7_Witness ==
    /\ hijacked
    /\ ret.op = "ReadFrom"
    /\ ret.err = "hijacked"
    /\ body # << >>

\* ------------------------------------------------------------------ C8
\* C8: a Hijack before the commit sets hijacked and returns the transport and
\* writes nothing; a Hijack on a hijacked writer returns errHijacked and
\* changes nothing; EndResponse on a hijacked writer returns nil and neither
\* writes nor flushes.
C8_HijackOnce ==
    [][ /\ (ret'.op = "Hijack" /\ ~hijacked /\ ~wroteHeader) =>
              /\ hijacked'
              /\ ret'.err = "nil" /\ ret'.n = 1 /\ ret'.flushes = 0
              /\ wire' = wire
        /\ (ret'.op = "Hijack" /\ hijacked) =>
              /\ ret'.err = "hijacked" /\ ret'.n = 0
              /\ UNCHANGED << phase, header, statusCode, wroteHeader, hijacked,
                              chunked, body, bodyNil, bodyPuts, wire, broken, hist >>
        /\ (ret'.op = "EndResponse" /\ hijacked) =>
              /\ ret'.err = "nil" /\ ret'.flushes = 0
              /\ wire' = wire ]_vars

\* C8 witness: hijacked before any commit, bytes buffered, EndResponse done
C8_Witness ==
    /\ Finished
    /\ hijacked
    /\ ~wroteHeader
    /\ ret.op = "EndResponse"
    /\ hist.written # << >>
    /\ wire = << >>

\* ------------------------------------------------------------------ C9
\* C9: when Flush commits the header with a status that permits a body, the
\* response is chunked, with "Transfer-Encoding: chunked" and no
\* Content-Length; the bytes given to Write are on the wire or still in the
\* buffer, each once and in order, as non-empty chunks; and once EndResponse
\* is done all of them are on the wire, followed by the terminating chunk.
C9_FlushStreams ==
    (hist.commitBy = "Flush" /\ ~NoBody(Emitted.status))
    => /\ chunked
       /\ TEChunkedLines = 1
       /\ ~HasLine(CL)
       /\ phase \in {"handler", "returned"} =>
             (WrittenPayload \o body = hist.written /\ ChunkStream(BodyWrites))
       /\ Finished =>
             /\ WrittenPayload = hist.written
             /\ IsZeroChunk(wire[Len(wire)])
             /\ ChunkStream(SubSeq(BodyWrites, 1, Len(BodyWrites) - 1))

\* ------------------------------------------------------------------ C10
\* C10: a response committed in chunked mode has the terminating chunk
\* exactly once, as its last write, once EndResponse is done; nothing before
\* EndResponse writes a terminating or an empty chunk; a response committed
\* in fixed-length mode never has a terminating chunk.
C10_ZeroChunkOnce ==
    /\ (Finished /\ wroteHeader /\ chunked) =>
          (ZeroChunks = 1 /\ IsZeroChunk(wire[Len(wire)]))
    /\ phase \in {"handler", "returned"} =>
          /\ ZeroChunks = 0
          /\ \A i \in 1..Len(wire) : wire[i].t = "bin" => wire[i].v # << >>
    /\ (wroteHeader /\ ~chunked) => ZeroChunks = 0

\* ------------------------------------------------------------------ C11
\* the client sent two well-formed requests, the first one keep-alive, the
\* peer stayed until all their bytes had arrived, the transport did not fail
\* and the handler did not hijack
TwoRequestsServed ==
    /\ loop = "done"
    /\ reqs[1].ok /\ ~ShouldClose(reqs[1])
    /\ reqs[2].ok
    /\ ~chist.cut
    /\ ~broken
    /\ ~hijacked

\* C11: when the loop has ended on a connection that carried two well-formed
\* requests, the first not signalling close, the handler was given both, in
\* order, and the loop returned nil only after a request that signalled
\* close; no byte that a reader had pulled from the connection was dropped,
\* wherever the second request's bytes were when the first was parsed.
C11_BothRequestsHandled ==
    TwoRequestsServed
    => /\ chist.handled = << 1, 2 >>
       /\ chist.lost = << >>
       /\ result = "nil" => ShouldClose(req)

\* ------------------------------------------------------------------ C12
\* the bytes of the body of the request parsed last that are still in the
\* reader, readable on the connection or on their way
BodyAhead ==
    SelectSeq(rbuf \o avail \o pending,
              LAMBDA it : it.k = "body" /\ it.r = req.id)

\* a ResponseWriter is out of rwPool: taken by handleRequest, not yet released
WriterOut == loop = "handle" /\ phase # "released"

\* C12: at most one RequestContext is out of its pool for the connection, and
\* whenever the loop is about to parse a further request, EndResponse of the
\* request before has returned nil with the transport flushed, its
\* ResponseWriter and RequestContext are released, and no byte of its body
\* is left in front of the parser.
C12_Sequential ==
    /\ ctxOut <= 1
    /\ WriterOut => ctxOut = 1
    /\ (loop = "parse" /\ chist.handled # << >>) =>
          /\ hr.err = "nil" /\ ~hr.hijacked
          /\ ~broken
          /\ ret.op = "Release"
          /\ ~WriterOut
          /\ ctxOut = 0
          /\ BodyAhead = << >>

\* ------------------------------------------------------------------ C13
\* C13: when the handler panics before the header is committed (and before
\* any Hijack), the EndResponse that follows the recover writes a header
\* block with status 500 and no data after it: no byte that the handler gave
\* to Write is written.
C13_PanicGives500NoBody ==
    [][ ( /\ ret.op = "recover"
          /\ ~wroteHeader
          /\ ~hijacked
          /\ ret'.op = "EndResponse" )
        => /\ Len(wire') >= 1
           /\ wire'[1].t = "hdr"
           /\ wire'[1].v.status = StatusInternalServerError
           /\ \A i \in 2..Len(wire') : wire'[i].t # "bin" ]_vars

\* ------------------------------------------------------------------ C14
\* C14: after a handler that panicked with the header already committed, the
\* loop does not go back to parse a further request on the connection.
C14_LatePanicIsFatal ==
    [][ chist.latePanic => loop' # "parse" ]_vars

\* ------------------------------------------------------------------ C15
\* C15: whenever the connection's context is cancelled while the handler
\* runs, the context of the handler's request is done too, with a request
\* timeout configured or not.
C15_CancelReachesHandler ==
    (loop = "handle" /\ phase = "handler" /\ Done) => RequestDone

\* ------------------------------------------------------------------ C16
\* C16: once a write or flush on the transport has failed, the loop parses
\* no further request and does not wait as after a hijack; it ends with the
\* I/O error and with the RequestContext released.  An error returned by
\* EndResponse always ends the loop with that error.
C16_WriteErrorIsFatal ==
    /\ chist.ioFailed => loop \in {"handle", "done"}
    /\ (chist.ioFailed /\ loop = "done") => (result = "io" /\ ctxOut = 0)
    /\ hr.err = "io" => \/ loop = "handle" /\ phase \in {"ended", "released"}
                        \/ loop = "done" /\ result = "io"

\* ------------------------------------------------------------------ C17
\* the reader finds no byte and the peer has closed
CleanEOF == avail = << >> /\ disconnected

\* the loop ends in ReadingRequest; what the claim says of it apart from the
\* value returned: the RequestContext is released, no writer is acquired,
\* no handler is called and nothing is written
ParseEnds(res) ==
    (loop = "parse" /\ loop' = "done")
    => /\ result' = res
       /\ ctxOut' = 0
       /\ UNCHANGED rwVars
       /\ chist'.handled = chist.handled

\* C17: when the parse fails the loop releases the RequestContext and ends
\* without a writer, a handler call or a write; ServeConn returns io.EOF (a
\* non-nil error) on a clean end of input and the protocol error otherwise.
C17_ParseFailureEndsLoop ==
    [][ ParseEnds(IF CleanEOF THEN "EOF" ELSE "parse") ]_vars

\* C17 as stated: a clean end of input ends the loop as the orderly close
\* does, with no error
C17_Original ==
    [][ ParseEnds(IF CleanEOF THEN "nil" ELSE "parse") ]_vars

\* a request was served, then the loop ended on a clean end of input
C17_Witness ==
    loop = "done" /\ result = "EOF" /\ chist.handled # << >> /\ ctxOut = 0

\* ------------------------------------------------------------------ C19
\* handleRequest is through with a handler that hijacked the connection
HandlerHijacked == hijacked /\ phase \in {"ended", "released"}

\* C19: once handleRequest is back from a handler that hijacked, no step reads
\* or drains the connection, writes or flushes on it, or takes the loop back
\* to parsing; the loop ends only with the connection's context done, and
\* with that context done it does end, returning nil.
C19_HijackedLoopWaits ==
    /\ [][ HandlerHijacked =>
             /\ rbuf' = rbuf /\ req' = req /\ Len(avail') >= Len(avail)
             /\ wire' = wire /\ ret'.flushes = 0
             /\ loop' # "parse"
             /\ (loop # "done" /\ loop' = "done") => (Done /\ result' = "nil")
          ]_vars
    /\ (HandlerHijacked /\ Done) ~> (loop = "done")

\* the handler flushed and hijacked, the peer went away with request bytes
\* unread, and the loop has ended
C19_Witness ==
    /\ loop = "done" /\ HandlerHijacked /\ result = "nil"
    /\ wire # << >> /\ req.unread > 0

\* ------------------------------------------------------------------ C18
\* C18: no byte buffer is held by two connection tasks at once: two tasks
\* that have each taken their body buffer from the pool and not yet put it
\* back hold different buffers.
C18_OneOwner ==
    \A t1, t2 \in Tasks :
        (t1 # t2 /\ task[t1].owns /\ task[t2].owns)
        => task[t1].body # task[t2].body

\* ------------------------------------------------------------------ C20
\* C20: with the peer still there, a step that takes the loop from a
\* finished request back to parsing, or to its end, leaves no part of that
\* request's body unread, and what the next parse will read is the stream
\* from the head of the next request on; after a handler that hijacked, no
\* step reads from the request body or the reader.
C20_DrainedBeforeNextParse ==
    [][ /\ (loop = "handle" /\ ~hr.hijacked /\ loop' \in {"parse", "done"}
                            /\ hr.err = "nil" /\ ~disconnected)
            => req'.unread = 0
        /\ (loop = "handle" /\ loop' = "parse" /\ ~disconnected)
            => GetReader \o avail' \o pending' = Stream(reqs, req.id + 1)
        /\ HandlerHijacked => (req' = req /\ rbuf' = rbuf)
      ]_vars

\* ------------------------------------------------------------------ C21
\* the write calls issued by the step
NewWrites == SubSeq(wire', Len(wire) + 1, Len(wire'))

\* C21: a Flush that finds the header committed and bytes in the buffer
\* writes them as one chunk when the response is chunked, and as they are,
\* with no size line and no CRLF after them, when it is of fixed length.
C21_FlushFraming ==
    [][ (ret'.op = "Flush" /\ ~hijacked /\ wroteHeader /\ Len(body) > 0)
        => SameWrites(NewWrites, IF chunked THEN ChunkWrites(body)
                                            ELSE << BinItem(body) >>) ]_vars

\* ------------------------------------------------------------------ C22
\* the number of header blocks on the wire
HeaderBlocks == Len(SelectSeq(wire, LAMBDA it : it.t = "hdr"))

\* C22: a writer has written no header block before the commit and exactly
\* one, as its first write, from the commit on; wroteHeader stays true once a
\* call has committed; and from the commit on rw.statusCode is the status
\* of the header block and rw.chunked is what the block announced, whatever
\* was called since.
C22_CommitOnce ==
    /\ ~wroteHeader => (HeaderBlocks = 0 /\ hist.commitBy = "none" /\ ~chunked)
    /\ wroteHeader =>
          /\ HeaderBlocks = 1
          /\ wire[1].t = "hdr"
          /\ statusCode = Emitted.status
          /\ chunked = (TEChunkedLines = 1)

\* the header was committed by Flush with status 404; the handler made all
\* its data calls, hijacked, and EndResponse and Release are done
C22_Witness ==
    /\ phase = "released"
    /\ hist.commitBy = "Flush"
    /\ statusCode = 404
    /\ hijacked
    /\ hist.dataCalls = MaxData
    /\ hist.written # << >>

\* ------------------------------------------------------------------ C23
\* C23: the body buffer of a writer that NewResponseWriter hands out is
\* empty, whatever the requests before it did.
C23_AcquiredBodyEmpty ==
    [][ \A t \in Tasks :
           (task[t].pc = "idle" /\ task'[t].pc = "handler")
           => bpool'[task'[t].body].len = 0 ]_vars

\* ------------------------------------------------------------------ C24
\* C24: at most one RequestContext is out and none is released that was not
\* taken; when ServeConn has returned, every RequestContext it took has been
\* released; and with no RequestContext out the request's writer has been
\* released.
C24_ContextReleasedOnce ==
    /\ ctxOut \in {0, 1}
    /\ loop = "done" => ctxOut = 0
    /\ (ctxOut = 0 /\ chist.handled # << >>) => phase = "released"

\* ------------------------------------------------------------------ C25
\* C25: with a positive request timeout the request has a timeout context
\* from the call of the handler on, still live while the handler runs unless
\* its deadline passed, and cancelled from the return of the handler
\* (normal, after a panic, after a hijack) on, so before EndResponse is
\* called; with no timeout configured there is never one.
C25_TimeoutCancelled ==
    /\ requestTimeout = 0 => timer = "none"
    /\ (requestTimeout > 0 /\ loop = "handle" /\ phase = "handler")
          => timer \in {"armed", "fired"}
    /\ (requestTimeout > 0 /\ chist.handled # << >>
                           /\ ~(loop = "handle" /\ phase = "handler"))
          => timer = "cancelled"

\* a handler that hijacked has returned, EndResponse is still to be called,
\* and the timeout context, which had not fired, is cancelled
C25_Witness ==
    /\ requestTimeout > 0
    /\ loop = "handle" /\ phase = "returned"
    /\ hijacked
    /\ timer = "cancelled"

\* ------------------------------------------------------------------ C26
\* C26: the body bytes reach the transport in the order the handler produced
\* them.  The bytes of one request are numbered in call order (NewBytes), so
\* the payload on the wire, framing removed, is strictly ascending; in
\* particular a byte given to Write before a ReadFrom is not emitted after
\* the streamed bytes.
C26_BodyInCallOrder ==
    wroteHeader =>
        \A i, j \in 1..Len(Payload) : i < j => Payload[i] < Payload[j]

\* ------------------------------------------------------------------ C27
\* C27: the header block emitted at the commit never has both a
\* Content-Length and a Transfer-Encoding line, and it has the line
\* "Transfer-Encoding: chunked" once when rw.chunked is true after the commit
\* and not at all when it is false, whatever Content-Length and
\* Transfer-Encoding the handler set, whatever the status, and whichever of
\* Flush, ReadFrom and EndResponse committed.
C27_FramingHeadersExclusive ==
    wroteHeader =>
        /\ ~(HasLine(CL) /\ HasLine(TE))
        /\ TEChunkedLines = (IF chunked THEN 1 ELSE 0)

\* the handler set both Content-Length and "Transfer-Encoding: chunked",
\* ReadFrom committed on the chunked branch, and the response was ended
C27_Witness ==
    /\ Finished /\ wroteHeader /\ chunked
    /\ hist.commitBy = "ReadFrom"
    /\ CL \in DOMAIN hist.hdrAtCommit
    /\ Get(hist.hdrAtCommit, TE) = <<"chunked">>
    /\ HasLine(TE) /\ ~HasLine(CL)

\* ------------------------------------------------------------------ C28
\* C28: the body buffer taken by NewResponseWriter is put into the byte
\* buffer pool exactly once per request on every path through EndResponse
\* and Release (normal completion, hijacked, fixed-length write failure):
\* never more than one Put at any time, and exactly one once the writer is
\* released.
C28_BodyPutOnce ==
    /\ bodyPuts <= 1
    /\ phase = "released" => bodyPuts = 1
====
